---- MODULE Spec2Model ----
(***************************************************************************)
(* DefaultIndexManager of langium (workspace/index-manager.ts): the        *)
(* per-document symbol index, the per-document reference index, the        *)
(* memoized global scope and the affected-document analysis.               *)
(***************************************************************************)
EXTENDS Integers, Sequences, FiniteSets, TLC

\* ------------------------------------------------------------------ bounds
\* longest list an export extractor (computeExports) returns
MaxExports == 1
\* longest list a reference extractor (createDescriptions) returns
MaxRefs == 2

\* ------------------------------------------------------------- JS values
\* JavaScript's undefined
undefined == "undefined"

\* ------------------------------------------------------------------ URIs
\* vscode-uri URI objects: scheme and path
Uri(p) == [scheme |-> "file", path |-> p]

\* every URI a caller can name; "/c.calc" names a document that is not loaded
URIS == {Uri("/a.calc"), Uri("/b.calc"), Uri("/c.calc")}

\* uri.toString()
toString(uri) == uri.scheme \o "://" \o uri.path

\* equalURI(left, right) of utils/uri-util: left.toString() === right.toString().
\* The arguments are given in their string form (a string's toString() is itself).
equalURI(left, right) == left = right

\* ------------------------------------------------------------- the JS Map
\* A Map<string, V> is the sequence of its entries in insertion order.
MapHas(m, k) == \E i \in 1..Len(m) : m[i].key = k

\* get() of a key that is present (an absent key gives undefined: see MapHas)
MapGet(m, k) == m[CHOOSE i \in 1..Len(m) : m[i].key = k].value

\* set() keeps the position of a key already present, appends a new key
\* setting a present key moves it to the end of the iteration order
MapSet_movesToEnd(m, k, v) ==
    Append(SelectSeq(m, LAMBDA e : e.key # k), [key |-> k, value |-> v])

MapSet(m, k, v) ==
    IF MapHas(m, k)
    THEN [i \in 1..Len(m) |-> IF m[i].key = k THEN [key |-> k, value |-> v] ELSE m[i]]
    ELSE Append(m, [key |-> k, value |-> v])

MapDelete(m, k) == SelectSeq(m, LAMBDA e : e.key # k)

\* Array.from(map.values())
MapValues(m) == [i \in 1..Len(m) |-> m[i].value]

\* Array.prototype.flat() on an array of arrays
RECURSIVE flat(_)
flat(arrays) ==
    IF Len(arrays) = 0 THEN <<>> ELSE Head(arrays) \o flat(Tail(arrays))

\* ------------------------------------------------------------ AST reflection
\* the type tags of the language
TypeNames == {"Person", "Student"}

\* the declared subtype pairs <<subtype, supertype>>
DeclaredSubtypes == {<<"Student", "Person">>}

\* AstReflection.isSubtype(subtype, supertype)
isSubtype(subtype, supertype) ==
    \/ subtype = supertype
    \/ <<subtype, supertype>> \in DeclaredSubtypes

\* the values of globalScope's nodeType parameter: undefined or a type tag
NodeTypeArgs == {undefined} \cup TypeNames

\* the values of globalScope's scopeOptions parameter: omitted, or
\* { caseInsensitive: true }
ScopeOptionsArgs == {undefined, "caseInsensitive"}

\* new MapScope(elements, outerScope, options)
MapScope(elements, outerScope, options) ==
    [elements |-> elements, outerScope |-> outerScope, options |-> options]

\* ------------------------------------------------------------- documents
\* langiumDocuments().all: the loaded documents, in iteration order
all == <<Uri("/a.calc"), Uri("/b.calc")>>

Loaded == {all[i] : i \in 1..Len(all)}

\* document.references: the Reference objects of a document, each with an
\* optional linking error
ReferenceLists ==
    {<<>>, <<[error |-> undefined]>>, <<[error |-> undefined], [error |-> "LinkingError"]>>}

\* ----------------------------------------------------- extractor results
\* the sequences over S of length at most n
SeqsUpTo(S, n) == UNION {[1..k -> S] : k \in 0..n}

\* the AstNodeDescriptions ScopeComputation.computeExports can return for a
\* document: the node is still attached
ExportDescriptions(uri) ==
    {[node |-> "AstNode", name |-> "x", type |-> t, documentUri |-> uri, path |-> "/x"]
        : t \in TypeNames}

ExportLists(uri) == SeqsUpTo(ExportDescriptions(uri), MaxExports)

\* the paths a reference can point to
TargetPaths == {"/x"}

\* the ReferenceDescriptions ReferenceDescriptionProvider.createDescriptions can
\* return for a document; local is derived from source and target
ReferenceDescriptions(uri, targets) ==
    {[sourceUri |-> uri, sourcePath |-> "/ref", targetUri |-> t, targetPath |-> p,
      local |-> equalURI(toString(t), toString(uri))] : t \in targets, p \in TargetPaths}

ReferenceDescriptionLists(uri, targets) ==
    SeqsUpTo(ReferenceDescriptions(uri, targets), MaxRefs)

\* -------------------------------------------------------------- the state
VARIABLES
    simpleIndex,       \* Map<string, AstNodeDescription[]>
    referenceIndex,    \* Map<string, ReferenceDescription[]>
    globalScopeCache,  \* Map<string, Scope>
    allElementsCache,  \* AstNodeDescription[]
    documents,         \* the loaded LangiumDocuments: state and references
    pc,                \* per document: the await its update call is suspended at
    settled            \* the last finished update call and how its promise settled

vars == <<simpleIndex, referenceIndex, globalScopeCache, allElementsCache,
          documents, pc, settled>>

Init ==
    /\ simpleIndex = <<>>
    /\ referenceIndex = <<>>
    /\ globalScopeCache = <<>>
    /\ allElementsCache = <<>>
    /\ documents = [d \in Loaded |-> [state |-> "Parsed", references |-> <<>>]]
    /\ pc = [d \in Loaded |-> "idle"]
    /\ settled = [call |-> "none", outcome |-> "none"]

\* no update call is suspended
NoCallInFlight == \A d \in Loaded : pc[d] = "idle"

\* ------------------------------------------------------------ globalScope
\* the cache key: the parameter default nodeType = ''
nodeTypeKey(nodeType) == IF nodeType = undefined THEN "" ELSE nodeType

\* the flattened list globalScope works on: rebuilt when the cache is empty
allElements ==
    IF Len(allElementsCache) = 0
    THEN flat(MapValues(simpleIndex))
    ELSE allElementsCache

\* allElementsCache.filter(e => isSubtype(e.type, nodeType))
filterElements(elements, nodeType) ==
    SelectSeq(elements, LAMBDA e : isSubtype(e.type, nodeTypeKey(nodeType)))

\* the memoized scope is used only when it holds elements
cacheHit_nonEmptyOnly(nodeType) ==
    /\ MapHas(globalScopeCache, nodeTypeKey(nodeType))
    /\ Len(MapGet(globalScopeCache, nodeTypeKey(nodeType)).elements) > 0

\* whether the memoized scope is used
cacheHit(nodeType) == MapHas(globalScopeCache, nodeTypeKey(nodeType))

\* the memoized scope is returned only when it was built with the same options
globalScopeReturn_honoursOptions(nodeType, scopeOptions) ==
    IF /\ cacheHit(nodeType)
       /\ MapGet(globalScopeCache, nodeTypeKey(nodeType)).options = scopeOptions
    THEN MapGet(globalScopeCache, nodeTypeKey(nodeType))
    ELSE MapScope(filterElements(allElements, nodeType), undefined, scopeOptions)

\* the scope globalScope(nodeType, scopeOptions) returns in the current state
globalScopeReturn(nodeType, scopeOptions) ==
    IF cacheHit(nodeType)
    THEN MapGet(globalScopeCache, nodeTypeKey(nodeType))
    ELSE MapScope(filterElements(allElements, nodeType), undefined, scopeOptions)

\* the number of isSubtype calls globalScope(nodeType) makes in the current state
isSubtypeCalls(nodeType) ==
    IF cacheHit(nodeType) THEN 0 ELSE Len(allElements)

globalScope(nodeType, scopeOptions) ==
    /\ allElementsCache' = allElements
    /\ globalScopeCache' =
          IF cacheHit(nodeType)
          THEN globalScopeCache
          ELSE MapSet(globalScopeCache, nodeTypeKey(nodeType),
                      globalScopeReturn(nodeType, scopeOptions))
    /\ UNCHANGED <<simpleIndex, referenceIndex, documents, pc, settled>>

\* ------------------------------------------------------------------ remove
\* one iteration of the loop
removeOne(state, uri) ==
    [simpleIndex      |-> MapDelete(state.simpleIndex, toString(uri)),
     referenceIndex   |-> MapDelete(state.referenceIndex, toString(uri)),
     globalScopeCache |-> <<>>,
     allElementsCache |-> <<>>]

RECURSIVE removeAll(_, _)
removeAll(state, uris) ==
    IF Len(uris) = 0 THEN state
    ELSE removeAll(removeOne(state, Head(uris)), Tail(uris))

remove(uris) ==
    LET before == [simpleIndex      |-> simpleIndex,
                   referenceIndex   |-> referenceIndex,
                   globalScopeCache |-> globalScopeCache,
                   allElementsCache |-> allElementsCache]
        after == removeAll(before, uris)
    IN  /\ \A i \in 1..Len(uris) : uris[i] \in Loaded => pc[uris[i]] = "idle"
        /\ simpleIndex' = after.simpleIndex
        /\ referenceIndex' = after.referenceIndex
        /\ globalScopeCache' = after.globalScopeCache
        /\ allElementsCache' = after.allElementsCache
        /\ UNCHANGED <<documents, pc, settled>>

\* the arrays remove is called with
RemoveArgs == SeqsUpTo(Loaded, 2)

\* ----------------------------------------------------------- updateContent
\* the state is written before the extractor is awaited
updateContent_begin_setsState(d) ==
    /\ pc[d] = "idle"
    /\ globalScopeCache' = <<>>
    /\ allElementsCache' = <<>>
    /\ documents' = [documents EXCEPT ![d].state = "IndexedContent"]
    /\ pc' = [pc EXCEPT ![d] = "computeExports"]
    /\ UNCHANGED <<simpleIndex, referenceIndex, settled>>

\* up to the await: the caches are cleared and the extractor is started
updateContent_begin(d) ==
    /\ pc[d] = "idle"
    /\ globalScopeCache' = <<>>
    /\ allElementsCache' = <<>>
    /\ pc' = [pc EXCEPT ![d] = "computeExports"]
    /\ UNCHANGED <<simpleIndex, referenceIndex, documents, settled>>

\* the loop over the returned descriptions is missing
clearNodes_keepsNodes(exports) == exports

\* data.node = undefined for every returned description
clearNodes(exports) == [i \in 1..Len(exports) |-> [exports[i] EXCEPT !.node = undefined]]

\* the index is emptied before the new list is stored
updateContent_resume_clearsIndex(d, exports) ==
    /\ pc[d] = "computeExports"
    /\ simpleIndex' = MapSet(<<>>, toString(d), clearNodes(exports))
    /\ documents' = [documents EXCEPT ![d].state = "IndexedContent"]
    /\ pc' = [pc EXCEPT ![d] = "idle"]
    /\ settled' = [call |-> "updateContent", outcome |-> "fulfilled"]
    /\ UNCHANGED <<referenceIndex, globalScopeCache, allElementsCache>>

\* computeExports resolved with exports: the continuation after the await
updateContent_resume(d, exports) ==
    /\ pc[d] = "computeExports"
    /\ simpleIndex' = MapSet(simpleIndex, toString(d), clearNodes(exports))
    /\ documents' = [documents EXCEPT ![d].state = "IndexedContent"]
    /\ pc' = [pc EXCEPT ![d] = "idle"]
    /\ settled' = [call |-> "updateContent", outcome |-> "fulfilled"]
    /\ UNCHANGED <<referenceIndex, globalScopeCache, allElementsCache>>

\* the failure clears the entry of the document before it is passed on
updateContent_reject_clearsEntry(d) ==
    /\ pc[d] = "computeExports"
    /\ simpleIndex' = MapDelete(simpleIndex, toString(d))
    /\ pc' = [pc EXCEPT ![d] = "idle"]
    /\ settled' = [call |-> "updateContent", outcome |-> "rejected"]
    /\ UNCHANGED <<referenceIndex, globalScopeCache, allElementsCache, documents>>

\* computeExports threw (OperationCancelled or an extractor error): nothing
\* catches it, the promise of updateContent rejects
updateContent_reject(d) ==
    /\ pc[d] = "computeExports"
    /\ pc' = [pc EXCEPT ![d] = "idle"]
    /\ settled' = [call |-> "updateContent", outcome |-> "rejected"]
    /\ UNCHANGED <<simpleIndex, referenceIndex, globalScopeCache, allElementsCache,
                   documents>>

\* -------------------------------------------------------- updateReferences
updateReferences_begin(d) ==
    /\ pc[d] = "idle"
    /\ pc' = [pc EXCEPT ![d] = "createDescriptions"]
    /\ UNCHANGED <<simpleIndex, referenceIndex, globalScopeCache, allElementsCache,
                   documents, settled>>

\* the new references are added to the list already stored
updateReferences_resume_appends(d, indexData) ==
    /\ pc[d] = "createDescriptions"
    /\ referenceIndex' =
          MapSet(referenceIndex, toString(d),
                 (IF MapHas(referenceIndex, toString(d))
                  THEN MapGet(referenceIndex, toString(d)) ELSE <<>>) \o indexData)
    /\ documents' = [documents EXCEPT ![d].state = "IndexedReferences"]
    /\ pc' = [pc EXCEPT ![d] = "idle"]
    /\ settled' = [call |-> "updateReferences", outcome |-> "fulfilled"]
    /\ UNCHANGED <<simpleIndex, globalScopeCache, allElementsCache>>

\* storing the references resets the global scope cache as storing the
\* exports does
updateReferences_resume_invalidates(d, indexData) ==
    /\ pc[d] = "createDescriptions"
    /\ referenceIndex' = MapSet(referenceIndex, toString(d), indexData)
    /\ globalScopeCache' = <<>>
    /\ allElementsCache' = <<>>
    /\ documents' = [documents EXCEPT ![d].state = "IndexedReferences"]
    /\ pc' = [pc EXCEPT ![d] = "idle"]
    /\ settled' = [call |-> "updateReferences", outcome |-> "fulfilled"]
    /\ UNCHANGED simpleIndex

updateReferences_resume(d, indexData) ==
    /\ pc[d] = "createDescriptions"
    /\ referenceIndex' = MapSet(referenceIndex, toString(d), indexData)
    /\ documents' = [documents EXCEPT ![d].state = "IndexedReferences"]
    /\ pc' = [pc EXCEPT ![d] = "idle"]
    /\ settled' = [call |-> "updateReferences", outcome |-> "fulfilled"]
    /\ UNCHANGED <<simpleIndex, globalScopeCache, allElementsCache>>

\* the failure stores the references collected so far (none) before it is
\* passed on
updateReferences_reject_storesPartial(d) ==
    /\ pc[d] = "createDescriptions"
    /\ referenceIndex' = MapSet(referenceIndex, toString(d), <<>>)
    /\ pc' = [pc EXCEPT ![d] = "idle"]
    /\ settled' = [call |-> "updateReferences", outcome |-> "rejected"]
    /\ UNCHANGED <<simpleIndex, globalScopeCache, allElementsCache, documents>>

updateReferences_reject(d) ==
    /\ pc[d] = "createDescriptions"
    /\ pc' = [pc EXCEPT ![d] = "idle"]
    /\ settled' = [call |-> "updateReferences", outcome |-> "rejected"]
    /\ UNCHANGED <<simpleIndex, referenceIndex, globalScopeCache, allElementsCache,
                   documents>>

\* ------------------------------------------------------------- the linker
\* the linker (outside the index manager) rewrites document.references
link(d, references) ==
    /\ documents' = [documents EXCEPT ![d].references = references]
    /\ UNCHANGED <<simpleIndex, referenceIndex, globalScopeCache, allElementsCache,
                   pc, settled>>

\* ---------------------------------------------------- getAffectedDocuments
\* a document without a reference index entry is never affected
isAffected_entryFirst(document, changed) ==
    IF ~MapHas(referenceIndex, toString(document))
    THEN FALSE
    ELSE \/ \E i \in 1..Len(documents[document].references) :
              documents[document].references[i].error # undefined
         \/ LET references == MapGet(referenceIndex, toString(document))
            IN  \E i \in 1..Len(references) :
                    /\ ~references[i].local
                    /\ equalURI(toString(references[i].targetUri), toString(changed))

\* the local references are kept instead of the non-local ones
isAffected_localOnly(document, changed) ==
    \/ \E i \in 1..Len(documents[document].references) :
          documents[document].references[i].error # undefined
    \/ /\ MapHas(referenceIndex, toString(document))
       /\ LET references == MapGet(referenceIndex, toString(document))
          IN  \E i \in 1..Len(references) :
                  /\ references[i].local
                  /\ equalURI(toString(references[i].targetUri), toString(changed))

\* isAffected(document, changed)
isAffected(document, changed) ==
    LET changedUriString == toString(changed)
        documentUri == toString(document)
    IN  IF \E i \in 1..Len(documents[document].references) :
              documents[document].references[i].error # undefined
        THEN TRUE
        ELSE IF MapHas(referenceIndex, documentUri)
             THEN LET references == MapGet(referenceIndex, documentUri)
                  IN  \E i \in 1..Len(references) :
                          /\ ~references[i].local
                          /\ equalURI(toString(references[i].targetUri), changedUriString)
             ELSE FALSE

\* the loop returns what isAffected says for the first uri
affectedByAny_firstOnly(document, uris) ==
    IF Len(uris) = 0 THEN FALSE ELSE isAffected(document, Head(uris))

\* the for loop of the filter callback: the first affected uri decides
RECURSIVE affectedByAny(_, _)
affectedByAny(document, uris) ==
    IF Len(uris) = 0 THEN FALSE
    ELSE IF isAffected(document, Head(uris)) THEN TRUE
         ELSE affectedByAny(document, Tail(uris))

\* the changed documents are not left out
getAffectedDocuments_keepsChanged(uris) ==
    SelectSeq(all, LAMBDA e : affectedByAny(e, uris))

\* getAffectedDocuments(uris), iterated in the current state
getAffectedDocuments(uris) ==
    SelectSeq(all, LAMBDA e :
        IF \E i \in 1..Len(uris) : equalURI(toString(e), toString(uris[i]))
        THEN FALSE
        ELSE affectedByAny(e, uris))

\* the arrays getAffectedDocuments is called with
ChangedArgs == SeqsUpTo(URIS, 2)

\* the Stream getAffectedDocuments(uris) returns: the stream of all documents
\* with the filter callback, which holds uris and reads the index when it runs
affectedStream(uris) == [source |-> "langiumDocuments.all", uris |-> uris]

\* iterating a filter stream: a lazy stream runs its callback on each document
\* when it is iterated, so against the index as it is then
toArray(stream) == getAffectedDocuments(stream.uris)

\* ------------------------------------------------------- findAllReferences
\* the paths findAllReferences is asked for, and references point to
LookupPaths == {"/x", "/y"}

\* the documents findAllReferences is asked for, and references point to
LookupTargets == {Uri("/a.calc"), Uri("/c.calc")}

\* the lists createDescriptions returns where references are looked up
LookupReferenceLists(uri) ==
    SeqsUpTo({[sourceUri |-> uri, sourcePath |-> "/ref", targetUri |-> t, targetPath |-> p,
               local |-> equalURI(toString(t), toString(uri))]
                 : t \in LookupTargets, p \in LookupPaths}, MaxRefs)

\* the AST nodes findAllReferences is called with: a node knows its document
TargetNodes == {[document |-> [uri |-> u]] : u \in LookupTargets}

\* getDocument(node) of utils/ast-util
getDocument(node) == node.document

\* the test of the inner forEach
matchesTarget(refDescr, targetDocUri, astNodePath) ==
    /\ equalURI(toString(refDescr.targetUri), toString(targetDocUri))
    /\ refDescr.targetPath = astNodePath

\* the path is not compared
findAllReferences_anyPath(targetNode, astNodePath) ==
    SelectSeq(flat(MapValues(referenceIndex)),
              LAMBDA refDescr : equalURI(toString(refDescr.targetUri),
                                         toString(getDocument(targetNode).uri)))

\* findAllReferences(targetNode, astNodePath): the result array, filled by the
\* nested forEach in map order, then within-list order
findAllReferences(targetNode, astNodePath) ==
    LET targetDocUri == getDocument(targetNode).uri
    IN  SelectSeq(flat(MapValues(referenceIndex)),
                  LAMBDA refDescr : matchesTarget(refDescr, targetDocUri, astNodePath))

\* ---------------------------------------------------------- specifications
\* the symbol index and the global scope: updateContent calls may overlap
Next ==
    \/ \E d \in Loaded : updateContent_begin(d)
    \/ \E d \in Loaded : \E exports \in ExportLists(d) : updateContent_resume(d, exports)
    \/ \E d \in Loaded : updateContent_reject(d)
    \/ \E uris \in RemoveArgs : remove(uris)
    \/ \E nodeType \in NodeTypeArgs : globalScope(nodeType, undefined)

Spec == Init /\ [][Next]_vars

\* the update pipeline as the document builder drives it: one update call at
\* a time, each awaited before the next starts
NextUpdate ==
    \/ \E d \in Loaded : NoCallInFlight /\ updateContent_begin(d)
    \/ \E d \in Loaded : \E exports \in ExportLists(d) : updateContent_resume(d, exports)
    \/ \E d \in Loaded : updateContent_reject(d)
    \/ \E d \in Loaded : NoCallInFlight /\ updateReferences_begin(d)
    \/ \E d \in Loaded : \E indexData \in ReferenceDescriptionLists(d, URIS \ Loaded) :
          updateReferences_resume(d, indexData)
    \/ \E d \in Loaded : updateReferences_reject(d)
    \/ \E uris \in RemoveArgs : remove(uris)

SpecUpdate == Init /\ [][NextUpdate]_vars

\* the reference index, the linker and the affected-document analysis
NextRefs ==
    \/ \E d \in Loaded : NoCallInFlight /\ updateReferences_begin(d)
    \/ \E d \in Loaded : \E indexData \in ReferenceDescriptionLists(d, URIS) :
          updateReferences_resume(d, indexData)
    \/ \E d \in Loaded : updateReferences_reject(d)
    \/ \E uris \in RemoveArgs : remove(uris)
    \/ \E d \in Loaded : \E references \in ReferenceLists : link(d, references)

SpecRefs == Init /\ [][NextRefs]_vars

\* the reference index under reference lookup: references to two documents at
\* two paths
NextLookup ==
    \/ \E d \in Loaded : NoCallInFlight /\ updateReferences_begin(d)
    \/ \E d \in Loaded : \E indexData \in LookupReferenceLists(d) :
          updateReferences_resume(d, indexData)
    \/ \E d \in Loaded : updateReferences_reject(d)
    \/ \E uris \in RemoveArgs : remove(uris)

SpecLookup == Init /\ [][NextLookup]_vars

\* one build of a fresh workspace: updateContent of document a, then
\* updateContent of document b, then updateReferences of document b, each
\* awaited before the next
NextBuild ==
    LET a == Uri("/a.calc")
        b == Uri("/b.calc")
    IN  \/ /\ documents[a].state = "Parsed"
           /\ NoCallInFlight
           /\ updateContent_begin(a)
        \/ \E exports \in ExportLists(a) : updateContent_resume(a, exports)
        \/ /\ documents[a].state = "IndexedContent"
           /\ documents[b].state = "Parsed"
           /\ NoCallInFlight
           /\ updateContent_begin(b)
        \/ \E exports \in ExportLists(b) : updateContent_resume(b, exports)
        \/ /\ documents[b].state = "IndexedContent"
           /\ NoCallInFlight
           /\ updateReferences_begin(b)
        \/ \E indexData \in LookupReferenceLists(b) : updateReferences_resume(b, indexData)

SpecBuild == Init /\ [][NextBuild]_vars

\* the documents whose references are indexed next to the global scope cache
Referrers == {Uri("/b.calc")}

\* the global scope cache next to the update pipeline: one update call at a
\* time, each awaited before the next starts
NextCache ==
    \/ \E d \in Loaded : NoCallInFlight /\ updateContent_begin(d)
    \/ \E d \in Loaded : \E exports \in ExportLists(d) : updateContent_resume(d, exports)
    \/ \E d \in Referrers : NoCallInFlight /\ updateReferences_begin(d)
    \/ \E d \in Referrers : \E indexData \in ReferenceDescriptionLists(d, URIS \ Loaded) :
          updateReferences_resume(d, indexData)
    \/ \E nodeType \in NodeTypeArgs : globalScope(nodeType, undefined)

SpecCache == Init /\ [][NextCache]_vars

\* globalScope called with and without scope options, between the mutations
\* of the symbol index
NextOptions ==
    \/ \E d \in Loaded : NoCallInFlight /\ updateContent_begin(d)
    \/ \E d \in Loaded : \E exports \in ExportLists(d) : updateContent_resume(d, exports)
    \/ \E d \in Loaded : remove(<<d>>)
    \/ \E nodeType \in NodeTypeArgs : \E scopeOptions \in ScopeOptionsArgs :
          globalScope(nodeType, scopeOptions)

SpecOptions == Init /\ [][NextOptions]_vars

\* ------------------------------------------------------------------ claims

\* C1: whenever no mutating call is in flight, for every type filter T the scope
\* globalScope(T) returns holds exactly the descriptions stored in the symbol
\* index (over all documents) that pass the filter for T.
C1_GlobalScopeIsFresh ==
    NoCallInFlight =>
        \A T \in TypeNames :
            LET returned == globalScopeReturn(T, undefined).elements
                stored == SelectSeq(flat(MapValues(simpleIndex)),
                                    LAMBDA e : isSubtype(e.type, T))
                count(list, e) == Cardinality({i \in 1..Len(list) : list[i] = e})
            IN  \A e \in {returned[i] : i \in 1..Len(returned)}
                         \cup {stored[i] : i \in 1..Len(stored)} :
                    count(returned, e) = count(stored, e)

\* C2: when a successful updateContent(document) returns, or a remove(uris) with
\* non-empty uris returns, the global scope cache has no entry for any type key
\* and the flattened all-elements list is empty.
C2_MutationLeavesCacheEmpty ==
    [][ ( \/ \E d \in Loaded : \E exports \in ExportLists(d) :
                 updateContent_resume(d, exports)
          \/ \E uris \in RemoveArgs : Len(uris) > 0 /\ remove(uris) )
        => (globalScopeCache' = <<>> /\ allElementsCache' = <<>>) ]_vars

\* C3: globalScope(T) returns only descriptions whose type equals or is a
\* declared subtype of T, and with the type argument omitted it returns all the
\* descriptions stored in the symbol index. The second half is stated for a
\* call that finds the caches empty, so that it computes its result afresh.
C3_NoFilterReturnsAll ==
    /\ \A T \in TypeNames :
          LET returned == globalScopeReturn(T, undefined).elements
          IN  \A i \in 1..Len(returned) : isSubtype(returned[i].type, T)
    /\ (globalScopeCache = <<>> /\ allElementsCache = <<>>) =>
          globalScopeReturn(undefined, undefined).elements = flat(MapValues(simpleIndex))

\* C6: remove([uri]) followed by globalScope(T), for any T including the omitted
\* one, returns a scope without any symbol of uri and with the matching symbols
\* of every document that was not removed.
C6_RemoveThenGlobalScope ==
    [][ \A uri \in Loaded : remove(<<uri>>) =>
          \A T \in NodeTypeArgs :
            LET returned == globalScopeReturn(T, undefined)'.elements
                kept == flat(MapValues(simpleIndex'))
            IN  /\ \A i \in 1..Len(returned) : returned[i].documentUri # uri
                /\ \A i \in 1..Len(kept) :
                      (T = undefined \/ isSubtype(kept[i].type, T)) =>
                          \E j \in 1..Len(returned) : returned[j] = kept[i] ]_vars

\* C7: a globalScope(T) call that directly follows a globalScope(T) call returns
\* the same scope and makes no isSubtype call, for every T including the omitted
\* one, also when the filtered result is empty.
C7_SecondCallIsCacheHit ==
    [][ \A T \in NodeTypeArgs : globalScope(T, undefined) =>
          /\ globalScopeReturn(T, undefined)' = globalScopeReturn(T, undefined)
          /\ isSubtypeCalls(T)' = 0 ]_vars

\* a scope with no element is memoized for "Student" and for the omitted type
\* while the flattened list holds elements
C7_Witness ==
    /\ Len(allElementsCache) > 0
    /\ cacheHit("Student") /\ cacheHit(undefined)
    /\ Len(MapGet(globalScopeCache, nodeTypeKey("Student")).elements) = 0

\* C4: an updateContent(document) call whose export extractor is cancelled or
\* fails rejects, and neither its start nor its failure changes the symbol index,
\* the reference index or any document's lifecycle state.
C4_FailedUpdateContentCommitsNothing ==
    [][ \A d \in Loaded :
          /\ (pc[d] = "idle" /\ pc'[d] = "computeExports") =>
                UNCHANGED <<simpleIndex, referenceIndex, documents>>
          /\ (pc[d] = "computeExports" /\ pc'[d] = "idle"
                  /\ settled'.outcome = "rejected") =>
                /\ settled'.call = "updateContent"
                /\ UNCHANGED <<simpleIndex, referenceIndex, documents>> ]_vars

\* an updateContent call has just failed for a document that has a symbol index
\* entry, while the other document has one too, the reference index is not
\* empty and a document is in state IndexedReferences
C4_Witness ==
    /\ settled = [call |-> "updateContent", outcome |-> "rejected"]
    /\ \A d \in Loaded : MapHas(simpleIndex, toString(d))
    /\ \E d \in Loaded : Len(MapGet(simpleIndex, toString(d))) > 0
    /\ \E i \in 1..Len(referenceIndex) : Len(referenceIndex[i].value) > 0
    /\ \E d \in Loaded : documents[d].state = "IndexedReferences"

\* C5: an updateReferences(document) call whose reference extractor is cancelled
\* or fails leaves the reference index entry of the document as it was (no
\* partial list is stored) and does not advance the document's lifecycle state.
C5_FailedUpdateReferencesCommitsNothing ==
    [][ \A d \in Loaded :
          /\ (pc[d] = "idle" /\ pc'[d] = "createDescriptions") =>
                UNCHANGED <<referenceIndex, documents>>
          /\ (pc[d] = "createDescriptions" /\ pc'[d] = "idle"
                  /\ settled'.outcome = "rejected") =>
                /\ settled'.call = "updateReferences"
                /\ UNCHANGED <<referenceIndex, documents>> ]_vars

\* an updateReferences call has just failed for a document that has a non-empty
\* reference index entry and is in state IndexedContent, and for one that has
\* no entry
C5_Witness ==
    /\ settled = [call |-> "updateReferences", outcome |-> "rejected"]
    /\ \E d \in Loaded :
          /\ MapHas(referenceIndex, toString(d))
          /\ Len(MapGet(referenceIndex, toString(d))) > 0
          /\ documents[d].state = "IndexedContent"

\* C8 as stated: for every array changedIds, the empty one included, and every
\* loaded document D whose id is not in changedIds, D is in
\* getAffectedDocuments(changedIds) iff D has a reference with a recorded error
\* or D's reference index entry holds a non-local reference whose target id is
\* in changedIds.
C8_AffectedIffAsStated ==
    \A changedIds \in ChangedArgs : \A D \in Loaded :
        LET ids == {changedIds[i] : i \in 1..Len(changedIds)}
            affected == getAffectedDocuments(changedIds)
            hasError == \E i \in 1..Len(documents[D].references) :
                            documents[D].references[i].error # undefined
            entry == IF MapHas(referenceIndex, toString(D))
                     THEN MapGet(referenceIndex, toString(D)) ELSE <<>>
            refersTo == \E i \in 1..Len(entry) :
                            ~entry[i].local /\ entry[i].targetUri \in ids
        IN  D \notin ids =>
                ((\E i \in 1..Len(affected) : affected[i] = D) <=> (hasError \/ refersTo))

\* C8 amended: the same equivalence for every non-empty array changedIds.
C8_AffectedIffNonEmpty ==
    \A changedIds \in ChangedArgs : \A D \in Loaded :
        LET ids == {changedIds[i] : i \in 1..Len(changedIds)}
            affected == getAffectedDocuments(changedIds)
            hasError == \E i \in 1..Len(documents[D].references) :
                            documents[D].references[i].error # undefined
            entry == IF MapHas(referenceIndex, toString(D))
                     THEN MapGet(referenceIndex, toString(D)) ELSE <<>>
            refersTo == \E i \in 1..Len(entry) :
                            ~entry[i].local /\ entry[i].targetUri \in ids
        IN  (Len(changedIds) > 0 /\ D \notin ids) =>
                ((\E i \in 1..Len(affected) : affected[i] = D) <=> (hasError \/ refersTo))

\* document a has no recorded error and refers to "/c.calc" only (after a local
\* reference), document b has a recorded error and an entry without references:
\* for changedIds = [b, c] the second id decides for a
C8_Witness ==
    LET a == Uri("/a.calc")
        b == Uri("/b.calc")
        c == Uri("/c.calc")
    IN  /\ MapHas(referenceIndex, toString(a))
        /\ Len(MapGet(referenceIndex, toString(a))) = 2
        /\ MapGet(referenceIndex, toString(a))[1].local
        /\ MapGet(referenceIndex, toString(a))[2].targetUri = c
        /\ documents[a].references = <<[error |-> undefined]>>
        /\ MapHas(referenceIndex, toString(b))
        /\ Len(MapGet(referenceIndex, toString(b))) = 0
        /\ \E i \in 1..Len(documents[b].references) :
              documents[b].references[i].error # undefined
        /\ getAffectedDocuments(<<b, c>>) = <<a>>
        /\ getAffectedDocuments(<<c>>) = <<a, b>>

\* C9: getAffectedDocuments(changedIds) never includes a document whose id is
\* in changedIds.
C9_ChangedNeverAffected ==
    \A changedIds \in ChangedArgs :
        LET affected == getAffectedDocuments(changedIds)
        IN  \A i \in 1..Len(affected) : \A j \in 1..Len(changedIds) :
                affected[i] # changedIds[j]

\* document a has a recorded error and a stored non-local reference to
\* document b, and is left out of getAffectedDocuments([a, b]) and of
\* getAffectedDocuments([a])
C9_Witness ==
    LET a == Uri("/a.calc")
        b == Uri("/b.calc")
    IN  /\ \E i \in 1..Len(documents[a].references) :
              documents[a].references[i].error # undefined
        /\ MapHas(referenceIndex, toString(a))
        /\ \E i \in 1..Len(MapGet(referenceIndex, toString(a))) :
              MapGet(referenceIndex, toString(a))[i].targetUri = b
        /\ getAffectedDocuments(<<a, b>>) = <<>>
        /\ getAffectedDocuments(<<a>>) = <<>>

\* C10: getAffectedDocuments([U]) includes every loaded document other than U
\* that holds a stored non-local reference with target U, and every loaded
\* document other than U that has a reference with a recorded error, with or
\* without a reference index entry.
C10_SingleChangeAffects ==
    \A U \in URIS : \A D \in Loaded \ {U} :
        LET affected == getAffectedDocuments(<<U>>)
            included == \E i \in 1..Len(affected) : affected[i] = D
            hasError == \E i \in 1..Len(documents[D].references) :
                            documents[D].references[i].error # undefined
            entry == IF MapHas(referenceIndex, toString(D))
                     THEN MapGet(referenceIndex, toString(D)) ELSE <<>>
        IN  /\ (\E i \in 1..Len(entry) : ~entry[i].local /\ entry[i].targetUri = U)
                    => included
            /\ hasError => included

\* document b has a recorded error and no reference index entry, document a has
\* no error and a stored reference to "/c.calc": both are affected by [c]
C10_Witness ==
    LET a == Uri("/a.calc")
        b == Uri("/b.calc")
        c == Uri("/c.calc")
    IN  /\ ~MapHas(referenceIndex, toString(b))
        /\ \E i \in 1..Len(documents[b].references) :
              documents[b].references[i].error # undefined
        /\ documents[a].references = <<>>
        /\ MapHas(referenceIndex, toString(a))
        /\ \E i \in 1..Len(MapGet(referenceIndex, toString(a))) :
              MapGet(referenceIndex, toString(a))[i].targetUri = c
        /\ getAffectedDocuments(<<c>>) = <<a, b>>

\* C11: findAllReferences(node, path) returns exactly the reference
\* descriptions stored in the reference index, over all documents, whose target
\* id is the id of node's document and whose target path is path: each as often
\* as it is stored, no other, and none of a document without an entry.
C11_FindAllReferencesExact ==
    \A node \in TargetNodes : \A path \in LookupPaths :
        LET result == findAllReferences(node, path)
            count(list, r) == Cardinality({i \in 1..Len(list) : list[i] = r})
            matches(r) == r.targetUri = node.document.uri /\ r.targetPath = path
        IN  /\ \A i \in 1..Len(result) :
                  /\ matches(result[i])
                  /\ MapHas(referenceIndex, toString(result[i].sourceUri))
            /\ \A k \in 1..Len(referenceIndex) :
                  LET list == referenceIndex[k].value
                  IN  \A j \in 1..Len(list) :
                          matches(list[j]) => count(result, list[j]) = count(list, list[j])

\* both documents store a reference to ("/a.calc", "/x"), document a twice and
\* document b next to a reference to another path
C11_Witness ==
    LET a == Uri("/a.calc")
        b == Uri("/b.calc")
        node == [document |-> [uri |-> a]]
    IN  /\ MapHas(referenceIndex, toString(a)) /\ MapHas(referenceIndex, toString(b))
        /\ Len(findAllReferences(node, "/x")) = 3
        /\ Len(findAllReferences(node, "/y")) = 1
        /\ Len(MapGet(referenceIndex, toString(b))) = 2

\* C12: a successful updateContent(A) or updateReferences(A) alters neither the
\* symbol index entry nor the reference index entry of any other document, and
\* remove(ids) alters no entry of a document whose id is not in ids.
C12_OtherEntriesUntouched ==
    [][ LET same(m1, m2, k) ==
                /\ MapHas(m1, k) <=> MapHas(m2, k)
                /\ MapHas(m1, k) => MapGet(m1, k) = MapGet(m2, k)
            untouched(B) ==
                /\ same(simpleIndex, simpleIndex', toString(B))
                /\ same(referenceIndex, referenceIndex', toString(B))
        IN  /\ \A A \in Loaded :
                  (pc[A] # "idle" /\ pc'[A] = "idle" /\ settled'.outcome = "fulfilled") =>
                      \A B \in URIS \ {A} : untouched(B)
            /\ \A ids \in RemoveArgs : remove(ids) =>
                  \A B \in URIS \ {ids[i] : i \in 1..Len(ids)} : untouched(B) ]_vars

\* an update call has just succeeded while both documents hold a non-empty list
\* in the symbol index and in the reference index
C12_Witness ==
    /\ settled.outcome = "fulfilled"
    /\ \A d \in Loaded :
          /\ MapHas(simpleIndex, toString(d)) /\ MapHas(referenceIndex, toString(d))
          /\ Len(MapGet(simpleIndex, toString(d))) > 0
          /\ Len(MapGet(referenceIndex, toString(d))) > 0

\* C13: every description held in the symbol index, and so every description
\* in the flattened list and in a memoized global scope, has no node.
C13_StoredDescriptionsHaveNoNode ==
    /\ \A k \in 1..Len(simpleIndex) : \A i \in 1..Len(simpleIndex[k].value) :
          simpleIndex[k].value[i].node = undefined
    /\ \A i \in 1..Len(allElementsCache) : allElementsCache[i].node = undefined
    /\ \A k \in 1..Len(globalScopeCache) :
          \A i \in 1..Len(globalScopeCache[k].value.elements) :
              globalScopeCache[k].value.elements[i].node = undefined

\* both documents have stored a description and a memoized scope holds two
C13_Witness ==
    /\ \A d \in Loaded :
          MapHas(simpleIndex, toString(d)) /\ Len(MapGet(simpleIndex, toString(d))) > 0
    /\ \E k \in 1..Len(globalScopeCache) : Len(globalScopeCache[k].value.elements) = 2

\* C14: each index holds at most one list per document id, and after a
\* successful updateContent(D) the symbol index entry of D is the list the
\* export extractor returned for the call (element by element, the node apart),
\* and after a successful updateReferences(D) the reference index entry of D is
\* the list the reference extractor returned.
C14_UpdateReplacesWholeList ==
    [][ /\ \A i, j \in 1..Len(simpleIndex') :
              simpleIndex'[i].key = simpleIndex'[j].key => i = j
        /\ \A i, j \in 1..Len(referenceIndex') :
              referenceIndex'[i].key = referenceIndex'[j].key => i = j
        /\ \A d \in Loaded : \A exports \in ExportLists(d) :
              updateContent_resume(d, exports) =>
                  /\ MapHas(simpleIndex', toString(d))
                  /\ LET stored == MapGet(simpleIndex', toString(d))
                     IN  /\ Len(stored) = Len(exports)
                         /\ \A i \in 1..Len(exports) :
                               /\ stored[i].name = exports[i].name
                               /\ stored[i].type = exports[i].type
                               /\ stored[i].documentUri = exports[i].documentUri
                               /\ stored[i].path = exports[i].path
        /\ \A d \in Loaded : \A indexData \in ReferenceDescriptionLists(d, URIS \ Loaded) :
              updateReferences_resume(d, indexData) =>
                  /\ MapHas(referenceIndex', toString(d))
                  /\ MapGet(referenceIndex', toString(d)) = indexData ]_vars

\* an update has just succeeded; document a holds the empty list in the symbol
\* index and a two-element list in the reference index, document b holds a
\* description and an empty reference list
C14_Witness ==
    LET a == toString(Uri("/a.calc"))
        b == toString(Uri("/b.calc"))
    IN  /\ settled.outcome = "fulfilled"
        /\ MapHas(simpleIndex, a) /\ MapHas(simpleIndex, b)
        /\ MapHas(referenceIndex, a) /\ MapHas(referenceIndex, b)
        /\ Len(MapGet(simpleIndex, a)) = 0 /\ Len(MapGet(simpleIndex, b)) = 1
        /\ Len(MapGet(referenceIndex, a)) = 2 /\ Len(MapGet(referenceIndex, b)) = 0

\* C15: document a exports x at path "/x", document b holds one reference to
\* (a, "/x"), no document has a linking error. After updateContent(a),
\* updateContent(b), updateReferences(b) in that order,
\* findAllReferences(x in a, "/x") yields exactly one description, with source b
\* and local = false, and getAffectedDocuments([a]) yields [b].
C15_BuildScenario ==
    LET a == Uri("/a.calc")
        b == Uri("/b.calc")
        xInA == [document |-> [uri |-> a]]
        exportsOfA == MapGet(simpleIndex, toString(a))
        refsOfB == MapGet(referenceIndex, toString(b))
        toX(r) == r.targetUri = a /\ r.targetPath = "/x"
        found == findAllReferences(xInA, "/x")
    IN  ( /\ documents[b].state = "IndexedReferences"
          /\ \E i \in 1..Len(exportsOfA) :
                exportsOfA[i].name = "x" /\ exportsOfA[i].path = "/x"
          /\ Cardinality({i \in 1..Len(refsOfB) : toX(refsOfB[i])}) = 1 )
        => /\ Len(found) = 1
           /\ found[1].sourceUri = b
           /\ found[1].local = FALSE
           /\ getAffectedDocuments(<<a>>) = <<b>>

\* the build is complete, document a exports x at "/x" and document b holds a
\* reference to (a, "/x") after a reference to another document
C15_Witness ==
    LET a == Uri("/a.calc")
        b == Uri("/b.calc")
    IN  /\ documents[a].state = "IndexedContent"
        /\ documents[b].state = "IndexedReferences"
        /\ Len(MapGet(simpleIndex, toString(a))) = 1
        /\ Len(MapGet(referenceIndex, toString(b))) = 2
        /\ MapGet(referenceIndex, toString(b))[1].targetUri = Uri("/c.calc")
        /\ MapGet(referenceIndex, toString(b))[2].targetUri = a
        /\ MapGet(referenceIndex, toString(b))[2].targetPath = "/x"

\* C16: the sequence getAffectedDocuments(changedIds) returned is a snapshot: a
\* change of the reference index (updateReferences, remove) made after the call
\* does not change the documents an iteration of the sequence yields.
C16_AffectedIsSnapshot ==
    [][ referenceIndex' # referenceIndex =>
          \A changedIds \in ChangedArgs :
              toArray(affectedStream(changedIds))' = toArray(affectedStream(changedIds)) ]_vars

\* C17: a successful updateContent(document) leaves the document in state
\* IndexedContent and a successful updateReferences(document) in state
\* IndexedReferences, and a document's state changes only in the step that ends
\* such a call, with the call's list in the index.
C17_StateFollowsStore ==
    [][ \A d \in Loaded :
          LET ends(await) == pc[d] = await /\ pc'[d] = "idle"
                                /\ settled'.outcome = "fulfilled"
          IN  /\ ends("computeExports") =>
                    /\ documents'[d].state = "IndexedContent"
                    /\ MapHas(simpleIndex', toString(d))
              /\ ends("createDescriptions") =>
                    /\ documents'[d].state = "IndexedReferences"
                    /\ MapHas(referenceIndex', toString(d))
              /\ documents'[d].state # documents[d].state =>
                    \/ /\ ends("computeExports")
                       /\ documents'[d].state = "IndexedContent"
                       /\ settled'.call = "updateContent"
                    \/ /\ ends("createDescriptions")
                       /\ documents'[d].state = "IndexedReferences"
                       /\ settled'.call = "updateReferences" ]_vars

\* document a is in state IndexedContent after having been in state
\* IndexedReferences (it has a reference index entry), document b is in state
\* IndexedReferences, and both have a symbol index entry
C17_Witness ==
    LET a == Uri("/a.calc")
        b == Uri("/b.calc")
    IN  /\ documents[a].state = "IndexedContent"
        /\ documents[b].state = "IndexedReferences"
        /\ MapHas(referenceIndex, toString(a)) /\ MapHas(referenceIndex, toString(b))
        /\ MapHas(simpleIndex, toString(a)) /\ MapHas(simpleIndex, toString(b))
        /\ settled = [call |-> "updateContent", outcome |-> "fulfilled"]

\* C18: a successful updateReferences(D) leaves the symbol index, every
\* memoized global scope cache entry and the flattened list unchanged, so each
\* globalScope(T) that was a cache hit before it is a cache hit after it and
\* returns the same scope; getAffectedDocuments called after it goes by D's new
\* list: D is affected by a change of another document U exactly if the new
\* list holds a non-local reference to U (no reference of D has a linking
\* error here)
C18_ReferencesLeaveCacheAlone ==
    [][ \A d \in Referrers : \A indexData \in ReferenceDescriptionLists(d, URIS \ Loaded) :
          updateReferences_resume(d, indexData) =>
              /\ simpleIndex' = simpleIndex
              /\ globalScopeCache' = globalScopeCache
              /\ allElementsCache' = allElementsCache
              /\ \A T \in NodeTypeArgs : cacheHit(T) =>
                    /\ cacheHit(T)'
                    /\ isSubtypeCalls(T)' = 0
                    /\ globalScopeReturn(T, undefined)' = globalScopeReturn(T, undefined)
              /\ \A U \in URIS \ {d} :
                    (\E i \in 1..Len(getAffectedDocuments(<<U>>)') :
                        getAffectedDocuments(<<U>>)'[i] = d)
                    <=> (\E i \in 1..Len(indexData) :
                            /\ ~indexData[i].local
                            /\ indexData[i].targetUri = U) ]_vars

\* updateReferences has just succeeded for b while the cache holds the scope of
\* the Person elements, which is not empty; b is affected by a change of c
C18_Witness ==
    /\ settled = [call |-> "updateReferences", outcome |-> "fulfilled"]
    /\ cacheHit("Person")
    /\ Len(globalScopeReturn("Person", undefined).elements) > 0
    /\ Len(allElementsCache) > 0
    /\ getAffectedDocuments(<<Uri("/c.calc")>>) = <<Uri("/b.calc")>>

\* C19: findAllReferences returns its matches in the iteration order of the
\* reference index: a match of an earlier key never follows a match of a later
\* key, and the matches of one document are the matching elements of its
\* stored list in that list's order. The key order is the order of first
\* storing: storing a present document keeps every position, storing an absent
\* document puts it last, remove takes the removed documents out and keeps the
\* order of the others (so a removed and re-stored document is last).
C19_IndexIterationOrder ==
    /\ [](\A node \in TargetNodes : \A path \in LookupPaths :
            LET result == findAllReferences(node, path)
                pos(k) == CHOOSE i \in 1..Len(referenceIndex) : referenceIndex[i].key = k
                matches(r) == r.targetUri = node.document.uri /\ r.targetPath = path
            IN  /\ \A i, j \in 1..Len(result) : i < j =>
                      pos(toString(result[i].sourceUri)) <= pos(toString(result[j].sourceUri))
                /\ \A k \in 1..Len(referenceIndex) :
                      SelectSeq(result, LAMBDA r : toString(r.sourceUri) = referenceIndex[k].key)
                          = SelectSeq(referenceIndex[k].value, matches))
    /\ [][ LET keys(m) == [i \in 1..Len(m) |-> m[i].key]
            IN  /\ \A d \in Loaded :
                      (/\ MapHas(referenceIndex', toString(d))
                       /\ updateReferences_resume(d, MapGet(referenceIndex', toString(d)))) =>
                          keys(referenceIndex') =
                              IF MapHas(referenceIndex, toString(d))
                              THEN keys(referenceIndex)
                              ELSE Append(keys(referenceIndex), toString(d))
                /\ \A uris \in RemoveArgs : remove(uris) =>
                      keys(referenceIndex') =
                          SelectSeq(keys(referenceIndex),
                                    LAMBDA k : \A i \in 1..Len(uris) : k # toString(uris[i])) ]_vars

\* document b was stored before document a; b's list was stored last, and both
\* lists hold references to ("/a.calc", "/x"): b's two come first, in front of
\* a's one, which stands behind a reference to another path in a's list
C19_Witness ==
    LET a == Uri("/a.calc")
        b == Uri("/b.calc")
        result == findAllReferences([document |-> [uri |-> a]], "/x")
    IN  /\ Len(referenceIndex) = 2
        /\ referenceIndex[1].key = toString(b)
        /\ referenceIndex[2].key = toString(a)
        /\ Len(referenceIndex[2].value) = 2
        /\ referenceIndex[2].value[1].targetPath = "/y"
        /\ Len(result) = 3
        /\ result[1].sourceUri = b /\ result[2].sourceUri = b /\ result[3].sourceUri = a

\* C20: the global scope cache is keyed by the type filter only: right after a
\* globalScope(T, options1) call, a globalScope(T, options2) call returns the
\* scope the first call returned, whatever options2 is; a call that misses the
\* cache builds its scope with its own options, and the cache holds nothing
\* right after updateContent has started or remove has removed a document.
C20_CacheIgnoresOptions ==
    [][ /\ \A T \in NodeTypeArgs : \A options1 \in ScopeOptionsArgs :
              globalScope(T, options1) =>
                  /\ \A options2 \in ScopeOptionsArgs :
                        globalScopeReturn(T, options2)' = globalScopeReturn(T, options1)
                  /\ ~cacheHit(T) => globalScopeReturn(T, options1).options = options1
        /\ \A d \in Loaded : updateContent_begin(d) =>
              \A T \in NodeTypeArgs : \A o \in ScopeOptionsArgs :
                  ~cacheHit(T)' /\ globalScopeReturn(T, o)'.options = o
        /\ \A d \in Loaded : remove(<<d>>) =>
              \A T \in NodeTypeArgs : \A o \in ScopeOptionsArgs :
                  ~cacheHit(T)' /\ globalScopeReturn(T, o)'.options = o ]_vars

\* the scope of the Person elements was memoized by a call with
\* { caseInsensitive: true } and holds an element: a call without options gets
\* that scope; the Student scope was memoized by a call without options
C20_Witness ==
    /\ cacheHit("Person") /\ cacheHit("Student")
    /\ Len(globalScopeReturn("Person", undefined).elements) > 0
    /\ globalScopeReturn("Person", undefined).options = "caseInsensitive"
    /\ globalScopeReturn("Student", "caseInsensitive").options = undefined

====
